---- MODULE Spec2Model ----
(***************************************************************************)
(* Model of the debate summariser (main.go): readCsv -> parseCsvData ->    *)
(* summarize -> writeCsv.  A Go string is a sequence of one-character      *)
(* strings; a Go map is a function whose DOMAIN is the key set, and every  *)
(* `range` over a map is a nondeterministic choice of the key order.       *)
(***************************************************************************)
EXTENDS Integers, Sequences, FiniteSets, TLC

VARIABLES file, pc, called, failed, csvFile, debates, summary, output, prev

vars == <<file, pc, called, failed, csvFile, debates, summary, output, prev>>

-----------------------------------------------------------------------------
(* Strings *)

\* the bytes the model uses, in ascending byte (ASCII) order
Chars ==
  <<"\t", " ", "+", ",", "-", "0", "1", "2", "3", "4", "5", "6", "7", "8", "9",
    "A", "C", "D", "T", "[", "]", "a", "d", "e", "i", "l", "n", "o", "t", "x">>

Ord(c) == CHOOSE i \in 1..Len(Chars) : Chars[i] = c

Digits == <<"0", "1", "2", "3", "4", "5", "6", "7", "8", "9">>

IsDigit(c) == \E i \in 1..10 : Digits[i] = c

DigitVal(c) == (CHOOSE i \in 1..10 : Digits[i] = c) - 1

\* unicode.IsSpace restricted to the bytes of Chars
WhiteSpace == {" ", "\t"}

SeqMin(S) == CHOOSE x \in S : \A y \in S : x <= y

SeqMax(S) == CHOOSE x \in S : \A y \in S : x >= y

\* Go's a < b on strings: bytewise lexicographic order
StrLess(a, b) ==
  \E i \in 1..Len(b) :
    /\ \A j \in 1..(i - 1) : j <= Len(a) /\ a[j] = b[j]
    /\ (i > Len(a) \/ Ord(a[i]) < Ord(b[i]))

\* strings.Contains
Contains(s, sub) ==
  \E i \in 0..(Len(s) - Len(sub)) : SubSeq(s, i + 1, i + Len(sub)) = sub

\* strings.Trim(s, cutset)
Trim(s, cutset) ==
  LET keep == {i \in 1..Len(s) : s[i] \notin cutset}
  IN  IF keep = {} THEN <<>> ELSE SubSeq(s, SeqMin(keep), SeqMax(keep))

\* strings.TrimSpace
TrimSpace(s) == Trim(s, WhiteSpace)

\* strings.Split(s, sep) for a one-byte separator: never empty, "" gives [""]
RECURSIVE Split(_, _)
Split(s, sep) ==
  LET at == {i \in 1..Len(s) : s[i] = sep}
  IN  IF at = {} THEN <<s>>
      ELSE <<SubSeq(s, 1, SeqMin(at) - 1)>>
             \o Split(SubSeq(s, SeqMin(at) + 1, Len(s)), sep)

\* regexp `\[\d\]` ReplaceAllString(val, ""): one left-to-right pass over the
\* non-overlapping matches
RECURSIVE ReplaceAllString(_)
ReplaceAllString(val) ==
  IF val = <<>> THEN <<>>
  ELSE IF Len(val) >= 3 /\ val[1] = "[" /\ IsDigit(val[2]) /\ val[3] = "]"
       THEN ReplaceAllString(SubSeq(val, 4, Len(val)))
       ELSE <<val[1]>> \o ReplaceAllString(Tail(val))

\* strconv.Itoa
RECURSIVE ItoaNat(_)
ItoaNat(n) ==
  IF n < 10 THEN <<Digits[n + 1]>> ELSE ItoaNat(n \div 10) \o <<Digits[(n % 10) + 1]>>

Itoa(n) == IF n < 0 THEN <<"-">> \o ItoaNat(-n) ELSE ItoaNat(n)

RECURSIVE DigitsVal(_, _)
DigitsVal(s, acc) ==
  IF s = <<>> THEN acc ELSE DigitsVal(Tail(s), acc * 10 + DigitVal(s[1]))

\* strconv.Atoi: an optional sign, then one or more decimal digits
Atoi(s) ==
  LET signed == s # <<>> /\ s[1] \in {"+", "-"}
      body   == IF signed THEN Tail(s) ELSE s
  IN  IF body = <<>> \/ \E i \in 1..Len(body) : ~IsDigit(body[i])
      THEN [err |-> TRUE, val |-> 0]
      ELSE [err |-> FALSE,
            val |-> IF signed /\ s[1] = "-" THEN -DigitsVal(body, 0)
                    ELSE DigitsVal(body, 0)]

StrDate == <<"D", "a", "t", "e">>

StrCandidate == <<"C", "a", "n", "d", "i", "d", "a", "t", "e">>

StrTotal == <<"T", "o", "t", "a", "l">>

-----------------------------------------------------------------------------
(* parseCsvData *)

\* a Go map with no entries
EmptyMap == <<>>

\* var debate Debate
ZeroDebate == [Date |-> <<>>, Candidates |-> <<>>]

sanitizeColumnName(val) == Trim(ReplaceAllString(val), {" "})

\* AddIndex putting the new position in front of the group
AddIndexInFront(m, key, k) ==
  IF key \in DOMAIN m THEN [m EXCEPT ![key] = <<k>> \o @]
  ELSE m @@ (key :> <<k>>)

\* indexMap[sanitizedValue] = append(indexMap[sanitizedValue], k)
AddIndex(m, key, k) ==
  IF key \in DOMAIN m THEN [m EXCEPT ![key] = Append(@, k)]
  ELSE m @@ (key :> <<k>>)

\* for k, v := range data[0]   (k counts from 0 as in the source)
RECURSIVE buildIndexMap(_, _, _)
buildIndexMap(header, k, m) ==
  IF k >= Len(header) THEN m
  ELSE buildIndexMap(header, k + 1,
                     AddIndex(m, sanitizeColumnName(header[k + 1]), k))

indexMapOf(header) == buildIndexMap(header, 0, EmptyMap)

\* CountIssue without the increment of a label already counted
CountIssueOnce(ic, issue) ==
  IF issue \notin DOMAIN ic THEN ic @@ (issue :> 1) ELSE ic

\* if _, exists := candidate.IssueCount[issue]; !exists { = 1 } else { ++ }
CountIssue(ic, issue) ==
  IF issue \notin DOMAIN ic THEN ic @@ (issue :> 1)
  ELSE [ic EXCEPT ![issue] = @ + 1]

\* for _, issue := range issues
RECURSIVE countPieces(_, _)
countPieces(issues, ic) ==
  IF issues = <<>> THEN ic
  ELSE LET issue == TrimSpace(Head(issues))
       IN  countPieces(Tail(issues),
                       IF issue # <<>> THEN CountIssue(ic, issue) ELSE ic)

\* for _, indexVal := range index
RECURSIVE countColumns(_, _, _)
countColumns(debateData, index, ic) ==
  IF index = <<>> THEN ic
  ELSE countColumns(debateData, Tail(index),
                    countPieces(Split(debateData[Head(index) + 1], ","), ic))

newCandidate(rowKey, debateData, index) ==
  [Name |-> rowKey, IssueCount |-> countColumns(debateData, index, EmptyMap)]

\* for rowKey, index := range indexMap, the keys visited in the order `order`
RECURSIVE parseRow(_, _, _, _)
parseRow(debateData, indexMap, order, debate) ==
  IF order = <<>> THEN [err |-> FALSE, debate |-> debate]
  ELSE LET rowKey == Head(order)
           index  == indexMap[rowKey]
       IN  IF Contains(rowKey, StrDate)
           THEN IF Len(index) > 1
                THEN [err |-> TRUE, debate |-> debate]
                ELSE parseRow(debateData, indexMap, Tail(order),
                              [debate EXCEPT !.Date = debateData[index[1] + 1]])
           ELSE parseRow(debateData, indexMap, Tail(order),
                         [debate EXCEPT !.Candidates =
                            Append(@, newCandidate(rowKey, debateData, index))])

\* AppendDebate putting the new debate in front
PrependDebate(ds, debate) == <<debate>> \o ds

\* debates = append(debates, debate)
AppendDebate(ds, debate) == Append(ds, debate)

\* the orders in which a range over a map with key set S can visit the keys
RECURSIVE KeyOrders(_)
KeyOrders(S) ==
  IF S = {} THEN {<<>>}
  ELSE UNION {{<<k>> \o o : o \in KeyOrders(S \ {k})} : k \in S}

\* what the body of the loop over data[1:] can make of one row: one outcome
\* for each order of the range over indexMap
rowOutcomes(debateData, indexMap) ==
  {parseRow(debateData, indexMap, order, ZeroDebate) :
     order \in KeyOrders(DOMAIN indexMap)}

\* for _, debateData := range data[1:]   (n is the 1-based data row, picked[n]
\* the outcome of its loop body)
RECURSIVE parseRows(_, _, _, _)
parseRows(data, picked, n, ds) ==
  IF n > Len(data) - 1 THEN [err |-> FALSE, debates |-> ds]
  ELSE IF picked[n].err THEN [err |-> TRUE, debates |-> <<>>]
       ELSE parseRows(data, picked, n + 1, AppendDebate(ds, picked[n].debate))

parseCsvData(data, picked) == parseRows(data, picked, 1, <<>>)

\* the ways the map iterations of a call parseCsvData(data) can go
RECURSIVE pickedFrom(_, _, _)
pickedFrom(data, indexMap, n) ==
  IF n > Len(data) - 1 THEN {<<>>}
  ELSE {<<r>> \o rest : r \in rowOutcomes(data[n + 1], indexMap),
                        rest \in pickedFrom(data, indexMap, n + 1)}

iterations(data) == pickedFrom(data, indexMapOf(data[1]), 1)

-----------------------------------------------------------------------------
(* getIssues, summarize *)

\* the keys of issues after the three nested loops of getIssues
issueSet(ds) ==
  UNION {UNION {DOMAIN ds[d].Candidates[c].IssueCount :
                  c \in 1..Len(ds[d].Candidates)} : d \in 1..Len(ds)}

\* every slice getIssues can return: the keys in any map iteration order
getIssues(ds) == KeyOrders(issueSet(ds))

\* ReverseLess without the sort.Reverse
ForwardLess(x, y) == StrLess(x, y)

\* sort.Reverse(sort.StringSlice): Less(i, j) is data[j] < data[i]
ReverseLess(x, y) == StrLess(y, x)

RECURSIVE insertSorted(_, _)
insertSorted(sorted, x) ==
  IF sorted = <<>> THEN <<x>>
  ELSE IF ReverseLess(x, Head(sorted)) THEN <<x>> \o sorted
       ELSE <<Head(sorted)>> \o insertSorted(Tail(sorted), x)

\* sort.Sort(sort.Reverse(sort.StringSlice(sortedIssues)))
RECURSIVE sortReverse(_)
sortReverse(s) ==
  IF s = <<>> THEN <<>> ELSE insertSorted(sortReverse(Tail(s)), Head(s))

\* header := append([]string{"Date", "Candidate"}, sortedIssues...)
headerOf(sortedIssues) == <<StrDate, StrCandidate>> \o sortedIssues

\* candidate.IssueCount[h]: a missing key reads as 0
IssueCountAt(ic, h) == IF h \in DOMAIN ic THEN ic[h] ELSE 0

\* switch h { case "Date": ... case "Candidate": ... default: ... }
cellOf(debate, candidate, h) ==
  IF h = StrDate THEN debate.Date
  ELSE IF h = StrCandidate THEN candidate.Name
       ELSE Itoa(IssueCountAt(candidate.IssueCount, h))

\* var row = make([]string, len(header)); for hk, h := range header
rowOf(debate, candidate, header) ==
  [hk \in 1..Len(header) |-> cellOf(debate, candidate, header[hk])]

\* for _, candidate := range debate.Candidates
RECURSIVE candidateRows(_, _, _)
candidateRows(debate, cands, header) ==
  IF cands = <<>> THEN <<>>
  ELSE <<rowOf(debate, Head(cands), header)>>
         \o candidateRows(debate, Tail(cands), header)

\* for _, debate := range *debates
RECURSIVE debateRows(_, _)
debateRows(ds, header) ==
  IF ds = <<>> THEN <<>>
  ELSE candidateRows(Head(ds), Head(ds).Candidates, header)
         \o debateRows(Tail(ds), header)

\* for rowNum := 1; rowNum < len(rows); rowNum++   (rowNum, colNum from 0)
RECURSIVE columnTotal(_, _, _, _)
columnTotal(rows, colNum, rowNum, total) ==
  IF rowNum >= Len(rows) THEN [err |-> FALSE, val |-> total]
  ELSE LET a == Atoi(rows[rowNum + 1][colNum + 1])
       IN  IF a.err THEN [err |-> TRUE, val |-> 0]
           ELSE columnTotal(rows, colNum, rowNum + 1, total + a.val)

\* totalOf started two rows down
totalOfFromSecond(rows, colNum) == columnTotal(rows, colNum, 2, 0)

\* the column sum, started one row down because the first row is the header
totalOf(rows, colNum) == columnTotal(rows, colNum, 1, 0)

\* finalRowOf with a row made of len(header) - 1 cells
finalRowShort(rows) ==
  [c \in 1..(Len(rows[1]) - 1) |->
     IF c = 2 THEN StrTotal
     ELSE IF c >= 3 THEN Itoa(columnTotal(rows, c - 1, 1, 0).val)
          ELSE <<>>]

\* finalRow after the colNum loop, when no column failed
finalRowOf(rows) ==
  [c \in 1..Len(rows[1]) |->
     IF c = 2 THEN StrTotal
     ELSE IF c >= 3 THEN Itoa(totalOf(rows, c - 1).val)
          ELSE <<>>]

\* summarize from line 60 on, sortedIssues being sorted
tableOf(ds, sortedIssues) ==
  LET header == headerOf(sortedIssues)
      rows   == <<header>> \o debateRows(ds, header)
  IN  IF \E c \in 3..Len(header) : totalOf(rows, c - 1).err
      THEN [err |-> TRUE, rows |-> <<>>]
      ELSE [err |-> FALSE, rows |-> Append(rows, finalRowOf(rows))]

\* what sort.Sort can leave in sortedIssues, over the slices getIssues returns
sortedIssuesOf(ds) == {sortReverse(issueSlice) : issueSlice \in getIssues(ds)}

summarize(ds, sortedIssues) == tableOf(ds, sortedIssues)

-----------------------------------------------------------------------------
(* The input file ./debate_data.csv *)

MaxRows == 2

MaxFilled == 2

HDate == StrDate

\* "xDate": a second name that contains "Date"
HxDate == <<"x", "D", "a", "t", "e">>

\* "A [1]"
HA1 == <<"A", " ", "[", "1", "]">>

\* " A[2]"
HA2 == <<" ", "A", "[", "2", "]">>

\* "7": a candidate whose name is a number
H7 == <<"7">>

\* the header rows of the input files
Headers ==
  { <<HDate>>, <<HA1>>,
    <<HDate, HDate>>, <<HDate, H7>>, <<HA2, H7>>,
    <<HDate, HA1, HA2>>, <<HDate, HA1, H7>>, <<HA2, HDate, HA1>>,
    <<HxDate, HA1, HDate>> }

\* data cells other than "": "7", "T, 7,,<tab>T ", "Date,Candidate"
CellValues ==
  { <<"7">>,
    <<"T", ",", " ", "7", ",", ",", "\t", "T", " ">>,
    StrDate \o <<",">> \o StrCandidate }

\* the records of a file with header h and r data rows whose cells at the
\* positions P hold v and whose other cells are empty
FileOf(h, r, P, v) ==
  <<h>> \o [i \in 1..r |->
              [j \in 1..Len(h) |-> IF <<i, j>> \in P THEN v[<<i, j>>] ELSE <<>>]]

\* the records csv.Reader.ReadAll can return: none for an empty file, else a
\* header and up to MaxRows rows of the header's length, at most MaxFilled of
\* the data cells not empty
IsInput(f) ==
  \/ f = <<>>
  \/ \E h \in Headers, r \in 0..MaxRows :
       \E P \in {Q \in SUBSET ((1..r) \X (1..Len(h))) : Cardinality(Q) <= MaxFilled} :
         \E v \in [P -> CellValues] : f = FileOf(h, r, P, v)

-----------------------------------------------------------------------------
(* main *)

NoFile == [exists |-> FALSE, rows |-> <<>>]

\* AfterStage without the check of err
AfterStageUnchecked(err, next) == next

\* if err != nil { panic(err) }
AfterStage(err, next) == IF err THEN "panic" ELSE next

Init ==
  /\ IsInput(file)
  /\ pc = "main"
  /\ called = <<>>
  /\ failed = "none"
  /\ csvFile = <<>>
  /\ debates = <<>>
  /\ summary = <<>>
  /\ output = NoFile
  /\ prev = <<>>

\* csvFile, err := readCsv("./debate_data.csv"): the file opens and parses, or not
ReadCsv ==
  /\ pc = "main"
  /\ \E err \in BOOLEAN :
       /\ csvFile' = IF err THEN <<>> ELSE file
       /\ failed' = IF err THEN "readCsv" ELSE failed
       /\ pc' = AfterStage(err, "read")
  /\ called' = Append(called, "readCsv")
  /\ UNCHANGED <<file, debates, summary, output, prev>>

\* debates, err := parseCsvData(csvFile); data[0] of no records is a run-time panic
ParseCsvData ==
  /\ pc = "read"
  /\ called' = Append(called, "parseCsvData")
  /\ IF csvFile = <<>>
     THEN /\ pc' = "panic"
          /\ failed' = "parseCsvData"
          /\ UNCHANGED debates
     ELSE \E picked \in iterations(csvFile) :
            LET r == parseCsvData(csvFile, picked)
            IN  /\ debates' = r.debates
                /\ failed' = IF r.err THEN "parseCsvData" ELSE failed
                /\ pc' = AfterStage(r.err, "parsed")
  /\ UNCHANGED <<file, csvFile, summary, output, prev>>

\* summary, err := summarize(&debates)
Summarize ==
  /\ pc = "parsed"
  /\ called' = Append(called, "summarize")
  /\ \E sortedIssues \in sortedIssuesOf(debates) :
       LET r == summarize(debates, sortedIssues)
       IN  /\ summary' = r.rows
           /\ failed' = IF r.err THEN "summarize" ELSE failed
           /\ pc' = AfterStage(r.err, "summarized")
  /\ UNCHANGED <<file, csvFile, debates, output, prev>>

\* writeCsv("./output.csv", summary): all rows are written, or os.Create fails
\* (the file is untouched), or WriteAll fails after os.Create truncated the file
\* (csv.Writer buffers the rows, so nothing had reached the file)
WriteCsv ==
  /\ pc = "summarized"
  /\ called' = Append(called, "writeCsv")
  /\ \E err \in BOOLEAN :
       /\ IF err
          THEN \/ UNCHANGED output
               \/ output' = [exists |-> TRUE, rows |-> <<>>]
          ELSE output' = [exists |-> TRUE, rows |-> summary]
       /\ failed' = IF err THEN "writeCsv" ELSE failed
       /\ pc' = AfterStage(err, "done")
  /\ UNCHANGED <<file, csvFile, debates, summary, prev>>

\* the program is run a second time on the same ./debate_data.csv
Rerun ==
  /\ pc = "done"
  /\ prev = <<>>
  /\ prev' = summary
  /\ pc' = "main"
  /\ called' = <<>>
  /\ csvFile' = <<>>
  /\ debates' = <<>>
  /\ summary' = <<>>
  /\ UNCHANGED <<file, failed, output>>

\* one run of the program
Next == ReadCsv \/ ParseCsvData \/ Summarize \/ WriteCsv

Spec == Init /\ [][Next]_vars

\* two runs of the program on the same input
NextTwice == ReadCsv \/ ParseCsvData \/ Summarize \/ WriteCsv \/ Rerun

SpecTwice == Init /\ [][NextTwice]_vars

-----------------------------------------------------------------------------
(* What the claims speak of *)

\* parseCsvData has just returned its debates and no error
ParseOk == pc = "parsed"

\* summarize has just returned its table and no error
SummarizeOk == pc = "summarized"

\* the text left of s when every match of `\[\d\]` is cut out (no two matches
\* of this pattern overlap)
InMatch(s, i) ==
  \E j \in {i - 2, i - 1, i} :
    j >= 1 /\ j + 2 <= Len(s) /\ s[j] = "[" /\ IsDigit(s[j + 1]) /\ s[j + 2] = "]"

WithoutRounds(s) ==
  LET keep == {i \in 1..Len(s) : ~InMatch(s, i)}
  IN  [n \in 1..Cardinality(keep) |->
         s[CHOOSE i \in keep : Cardinality({j \in keep : j <= i}) = n]]

\* t is s without the spaces around it
IsSpaceTrimmed(t, s) ==
  /\ t = <<>> \/ (t[1] # " " /\ t[Len(t)] # " ")
  /\ \E a \in 0..Len(s) :
       /\ a + Len(t) <= Len(s)
       /\ SubSeq(s, a + 1, a + Len(t)) = t
       /\ \A i \in (1..a) \cup ((a + Len(t) + 1)..Len(s)) : s[i] = " "

\* the group name of a header cell: no `[d]`, no spaces around it
GroupName(h) ==
  LET w == WithoutRounds(h)
  IN  CHOOSE t \in {SubSeq(w, a, b) : a \in 1..(Len(w) + 1), b \in 0..Len(w)} :
        IsSpaceTrimmed(t, w)

\* the group names of the cells of a header
GroupNames(header) == [p \in 1..Len(header) |-> GroupName(header[p])]

\* the 0-based positions of the header cells that belong to the group key
ColumnsOf(names, key) == {p \in 0..(Len(names) - 1) : names[p + 1] = key}

\* the groups that hold a date, and those that hold a candidate
DateGroups(names) == {names[p] : p \in {q \in 1..Len(names) : Contains(names[q], StrDate)}}

CandidateGroups(names) ==
  {names[p] : p \in {q \in 1..Len(names) : ~Contains(names[q], StrDate)}}

\* the 0-based positions of the header cells whose name contains "Date"
DateColumns(names) == {p \in 0..(Len(names) - 1) : Contains(names[p + 1], StrDate)}

\* the mentions <<column, piece, label>> in the cells a data row has at cols
Mentions(row, cols) ==
  UNION {LET pieces == Split(row[p + 1], ",")
         IN  {<<p, i, TrimSpace(pieces[i])>> : i \in 1..Len(pieces)} : p \in cols}

\* every label a candidate cell of the file mentions
FileIssues(f, names) ==
  UNION {{x[3] : x \in Mentions(f[n], (0..(Len(names) - 1)) \ DateColumns(names))} :
           n \in 2..Len(f)} \ {<<>>}

\* the sum of column c (1-based) of the table t over its rows from..to
RECURSIVE SumCells(_, _, _, _)
SumCells(t, c, from, to) ==
  IF from > to THEN 0 ELSE Atoi(t[from][c]).val + SumCells(t, c, from + 1, to)

\* s is a non-negative integer written in base 10
IsCount(s) == ~Atoi(s).err /\ Atoi(s).val >= 0 /\ s[1] \notin {"+", "-"}

-----------------------------------------------------------------------------
(* The claims *)

\* C1: when summarize succeeds, the last row of the table is the Total row:
\* cell 0 is empty, cell 1 is "Total", and the cell of every issue column is
\* the base-10 text of the exact sum of that column over the data rows.
C1_TotalRow ==
  SummarizeOk =>
    LET t    == summary
        last == t[Len(t)]
    IN  /\ last[1] = <<>>
        /\ last[2] = StrTotal
        /\ \A c \in 3..Len(t[1]) :
             /\ Atoi(last[c]) = [err |-> FALSE, val |-> SumCells(t, c, 2, Len(t) - 1)]
             /\ last[c][1] # "+"
             /\ Len(last[c]) > 1 => last[c][1] # "0"
             /\ Len(t) = 2 => last[c] = <<"0">>

\* a table whose Total row adds up two data rows that both count the issue
C1_Witness ==
  /\ SummarizeOk
  /\ \E c \in 3..Len(summary[1]) :
       /\ \E r1, r2 \in 2..(Len(summary) - 1) :
            r1 # r2 /\ summary[r1][c] # <<"0">> /\ summary[r2][c] # <<"0">>
       /\ Atoi(summary[Len(summary)][c]).val >= 3

\* C2 (as claimed): a header with two or more columns whose names contain
\* "Date", under one key or under two, with any number of data rows, makes
\* parseCsvData return the data integrity error, so that writeCsv is not called.
C2_TwoDateColumnsFail ==
  (Len(called) >= 2 /\ csvFile # <<>>
     /\ Cardinality(DateColumns(GroupNames(csvFile[1]))) >= 2)
    => (failed = "parseCsvData" /\ pc = "panic")

\* C3 (as claimed): the second run of the pipeline on the same input rows
\* returns the table the first run returned, cell for cell.
C3_SameTableTwice ==
  (prev # <<>> /\ Len(called) >= 3 /\ failed \in {"none", "writeCsv"})
    => summary = prev

\* C4: the header cells from the third on are the issue names that are a key of
\* some IssueCount, each once, in strictly descending order; they are fixed by
\* the set of labels the candidate cells mention, whatever the order of the
\* rows and of the map iterations.
C4_HeaderSorted ==
  SummarizeOk =>
    LET hd == summary[1]
    IN  /\ {hd[i] : i \in 3..Len(hd)} = issueSet(debates)
        /\ {hd[i] : i \in 3..Len(hd)} = FileIssues(csvFile, GroupNames(csvFile[1]))
        /\ \A i \in 3..(Len(hd) - 1) : StrLess(hd[i + 1], hd[i])

\* the issue columns "T", "7" over two data rows that mention them as 7, T
C4_Witness ==
  /\ SummarizeOk
  /\ Len(summary[1]) = 4
  /\ summary[1][3] = <<"T">> /\ summary[1][4] = <<"7">>
  /\ Len(csvFile) >= 3
  /\ Len(debates[1].Candidates) = 1
  /\ DOMAIN debates[1].Candidates[1].IssueCount = {<<"7">>}

\* C5: the header has 2 + |issue universe| cells and every other row of the
\* table has as many cells as the header.
C5_Rectangular ==
  SummarizeOk =>
    /\ Len(summary[1]) = 2 + Cardinality(issueSet(debates))
    /\ \A r \in 1..Len(summary) : Len(summary[r]) = Len(summary[1])

\* a table with issue columns, data rows and the Total row
C5_Witness ==
  /\ SummarizeOk
  /\ Cardinality(issueSet(debates)) >= 2
  /\ Len(summary) >= 4

\* C6: the IssueCount of the candidate of a group and a data row maps a label
\* to the number of the comma-split, trimmed, non-empty pieces of the group's
\* cells in that row that are the label; a label never mentioned is no key.
C6_IssueCount ==
  ParseOk =>
    LET names == GroupNames(csvFile[1])
    IN  \A n \in 1..Len(debates) : \A c \in 1..Len(debates[n].Candidates) :
          LET cand == debates[n].Candidates[c]
              all  == Mentions(csvFile[n + 1], ColumnsOf(names, cand.Name))
          IN  /\ DOMAIN cand.IssueCount = {x[3] : x \in all} \ {<<>>}
              /\ \A label \in DOMAIN cand.IssueCount :
                   /\ cand.IssueCount[label] = Cardinality({x \in all : x[3] = label})
                   /\ cand.IssueCount[label] >= 1

\* a candidate whose count of one label adds up the mentions of two cells
C6_Witness ==
  /\ ParseOk
  /\ \E n \in 1..Len(debates) : \E c \in 1..Len(debates[n].Candidates) :
       \E label \in DOMAIN debates[n].Candidates[c].IssueCount :
         debates[n].Candidates[c].IssueCount[label] >= 3

\* C7: writeCsv is called only after readCsv, parseCsvData and summarize have
\* succeeded; when one of the three fails no later stage runs and the output
\* file is left as it was.
C7_WriteLast ==
  /\ failed \in {"readCsv", "parseCsvData", "summarize"} =>
       /\ pc = "panic"
       /\ called[Len(called)] = failed
       /\ \A i \in 1..Len(called) : called[i] # "writeCsv"
       /\ output = IF prev = <<>> THEN NoFile ELSE [exists |-> TRUE, rows |-> prev]
  /\ (\E i \in 1..Len(called) : called[i] = "writeCsv") =>
       /\ called = <<"readCsv", "parseCsvData", "summarize", "writeCsv">>
       /\ failed \in {"none", "writeCsv"}

\* a run that stopped when summarize returned its error
C7_Witness ==
  /\ failed = "summarize"
  /\ pc = "panic"
  /\ output = NoFile

\* C8 (as claimed): summarize returns no error for the debates of
\* parseCsvData, and every cell under an issue column of a data row is the
\* base-10 text of the candidate's count of that issue.
C8_CellsAreCounts ==
  Len(called) = 3 =>
    /\ failed # "summarize"
    /\ pc = "summarized" =>
         LET hd == summary[1]
         IN  /\ \A n \in 1..Len(debates) : \A g \in 1..Len(debates[n].Candidates) :
                  \A c \in 3..Len(hd) :
                    LET cand == debates[n].Candidates[g]
                        cell == summary[1 + ((n - 1) * Len(debates[n].Candidates)) + g][c]
                    IN  cell = IF hd[c] \in DOMAIN cand.IssueCount
                               THEN Itoa(cand.IssueCount[hd[c]])
                               ELSE <<"0">>
             /\ \A r \in 2..Len(summary) : \A c \in 3..Len(hd) :
                  IsCount(summary[r][c])

\* C9: every header position is in exactly one group of the column index,
\* the group named by the header text without `[d]` and surrounding spaces,
\* the positions of a group ascend, and a data row gives one Candidate for
\* each group that is no date group.
C9_IndexMap ==
  pc \in {"parsed", "panic"} /\ Len(called) = 2 /\ csvFile # <<>> =>
    LET names == GroupNames(csvFile[1])
        m     == indexMapOf(csvFile[1])
    IN  /\ DOMAIN m = {names[p] : p \in 1..Len(names)}
        /\ \A k \in DOMAIN m :
             /\ {m[k][i] : i \in 1..Len(m[k])} = ColumnsOf(names, k)
             /\ \A i \in 1..(Len(m[k]) - 1) : m[k][i] < m[k][i + 1]
        /\ \A p \in 0..(Len(names) - 1) :
             Cardinality({k \in DOMAIN m : \E i \in 1..Len(m[k]) : m[k][i] = p}) = 1
        /\ ParseOk =>
             \A n \in 1..Len(debates) :
               /\ Len(debates[n].Candidates) = Cardinality(CandidateGroups(names))
               /\ {debates[n].Candidates[c].Name : c \in 1..Len(debates[n].Candidates)}
                    = CandidateGroups(names)

\* the header Date, A [1], A[2] parsed into Date -> [0] and A -> [1, 2]
C9_Witness ==
  /\ ParseOk
  /\ csvFile[1] = <<HDate, HA1, HA2>>
  /\ indexMapOf(csvFile[1]) = (StrDate :> <<0>>) @@ (<<"A">> :> <<1, 2>>)
  /\ Len(debates) >= 1

\* C10: parseCsvData returns one Debate for each data row, in the order of the
\* rows, its Date the row's cell of the date column when there is exactly one;
\* the table of summarize is the header, then for each debate in that order
\* one row for each of its candidates, then the Total row.
C10_RowOrder ==
  /\ ParseOk =>
       LET dates == DateColumns(GroupNames(csvFile[1]))
       IN  /\ Len(debates) = Len(csvFile) - 1
           /\ Cardinality(dates) = 1 =>
                \A n \in 1..Len(debates) : \A p \in dates :
                  debates[n].Date = csvFile[n + 1][p + 1]
  /\ SummarizeOk =>
       LET names == GroupNames(csvFile[1])
           dates == DateColumns(names)
           G     == Cardinality(CandidateGroups(names))
           N     == Len(csvFile) - 1
       IN  /\ Len(summary) = 1 + (N * G) + 1
           /\ summary[1][1] = StrDate /\ summary[1][2] = StrCandidate
           /\ summary[Len(summary)][2] = StrTotal
           /\ \A n \in 1..N : \A g \in 1..G :
                /\ summary[1 + ((n - 1) * G) + g][1] = debates[n].Date
                /\ summary[1 + ((n - 1) * G) + g][2] = debates[n].Candidates[g].Name
                /\ Cardinality(dates) = 1 =>
                     \A p \in dates :
                       summary[1 + ((n - 1) * G) + g][1] = csvFile[n + 1][p + 1]

\* a table of two debates of different dates with two candidates each
C10_Witness ==
  /\ SummarizeOk
  /\ Len(debates) = 2
  /\ Cardinality(DateColumns(GroupNames(csvFile[1]))) = 1
  /\ debates[1].Date # debates[2].Date
  /\ Len(debates[1].Candidates) = 2
  /\ Len(summary) = 6

====
